---- MODULE Spec2Model ----
(***************************************************************************)
(* Model of src/src/lib.rs: the Inference verbs, their cache-aware         *)
(* constructors, the mutation helpers remove_from / replace, and the       *)
(* solve_minimum driver loop with its Solving / SearchMinimum phases.      *)
(*                                                                         *)
(* Facts are the values 1..NumFacts (the code is generic in T).  The Bloom *)
(* filter is modelled as the exact set of the fact sequences inserted.     *)
(* infer is an arbitrary function of (cache, facts): its answers are       *)
(* chosen when first asked and recorded in memo, so that a deterministic   *)
(* infer answers the same input the same way.                              *)
(*                                                                         *)
(* Specifications:                                                         *)
(*   Spec      the whole loop, any deterministic infer over 1..NumFacts    *)
(*   SpecV     the first iteration, any verb and any constructor call      *)
(*   SpecAny   the whole loop, any infer (not a function of its input)     *)
(*   SpecWalk  the Walk example of the crate documentation                 *)
(*   SpecLe    the Less or Equal example of the crate documentation        *)
(*   SpecSieve examples/prime.rs                                           *)
(*   SpecRec   the Narrow rule of examples/magic_square.rs, whose infer    *)
(*             calls solve_minimum: the invocations are frames on `stack`  *)
(***************************************************************************)
EXTENDS Integers, Sequences, FiniteSets, TLC

\* ---------------------------------------------------------------- bounds
NumFacts == 2
MaxInit == 2
MaxFrom == 1
MaxTo == 1
MaxIter == 4
MaxInitV == 3
MaxFromV == 2
MaxToV == 2

Facts == 1..NumFacts

SeqsUpTo(S, n) == UNION {[1..k -> S] : k \in 0..n}

Count(f, s) == Cardinality({i \in DOMAIN s : s[i] = f})

Elems(s) == {s[i] : i \in DOMAIN s}

Min(a, b) == IF a < b THEN a ELSE b


\* ------------------------------------------------------- Inference verbs
\* enum Inference<T>: one record shape for the six variants; a single `from`
\* or `to` is a one-element sequence, a missing one the empty sequence.
OneTrue(from) == [kind |-> "OneTrue", from |-> <<from>>, to |-> <<>>]
ManyTrue(from) == [kind |-> "ManyTrue", from |-> from, to |-> <<>>]
Simplify(from, to) == [kind |-> "Simplify", from |-> from, to |-> <<to>>]
SimplifyOne(from, to) == [kind |-> "SimplifyOne", from |-> <<from>>, to |-> <<to>>]
SimplifyMany(from, to) == [kind |-> "SimplifyMany", from |-> from, to |-> to]
Propagate(x) == [kind |-> "Propagate", from |-> <<>>, to |-> <<x>>]
\* infer returned None
NoInference == [kind |-> "None", from |-> <<>>, to |-> <<>>]

\* ------------------------------------------------ cache-aware constructors
\* replace_one with the cache test inverted
Inference_replace_one_flipped(from, to, c) ==
    IF to \in c THEN SimplifyOne(from, to) ELSE OneTrue(from)

Inference_replace_one(from, to, c) ==
    IF to \in c THEN OneTrue(from) ELSE SimplifyOne(from, to)

Inference_replace(from, to, c) ==
    IF to \in c THEN ManyTrue(from) ELSE Simplify(from, to)

\* Vec::remove(i) in the place of swap_remove: the elements after i shift down
swap_remove_shift(s, i) ==
    [k \in 1..(Len(s) - 1) |-> IF k < i THEN s[k] ELSE s[k + 1]]

\* Vec::swap_remove(i): the last element takes the place of element i.
swap_remove(s, i) ==
    [k \in 1..(Len(s) - 1) |-> IF k = i THEN s[Len(s)] ELSE s[k]]

\* the replace_many loop with the cache test inverted
RECURSIVE replace_many_loop_flipped(_, _, _)
replace_many_loop_flipped(to, i, c) ==
    IF i = 0 THEN to
    ELSE replace_many_loop_flipped(IF to[i] \notin c THEN swap_remove(to, i) ELSE to, i - 1, c)

\* the loop `for i in (0..to.len()).rev()` of replace_many, from index i down
RECURSIVE replace_many_loop(_, _, _)
replace_many_loop(to, i, c) ==
    IF i = 0 THEN to
    ELSE replace_many_loop(IF to[i] \in c THEN swap_remove(to, i) ELSE to, i - 1, c)

Inference_replace_many(from, to, c) ==
    SimplifyMany(from, replace_many_loop(to, Len(to), c))

\* ------------------------------------------------------ mutation helpers
\* remove_scan that moves on after a swap_remove instead of checking the
\* same index again
RECURSIVE remove_scan_skip(_, _, _, _)
remove_scan_skip(new_fact, fs, i, unique) ==
    IF i > Len(fs) THEN [facts |-> fs, unique |-> unique]
    ELSE IF new_fact = fs[i]
         THEN IF unique
              THEN [facts |-> fs, unique |-> FALSE]
              ELSE remove_scan_skip(new_fact, swap_remove(fs, i), i + 1, TRUE)
         ELSE remove_scan_skip(new_fact, fs, i + 1, unique)

\* remove_scan that keeps removing at a second match instead of stopping
RECURSIVE remove_scan_all(_, _, _, _)
remove_scan_all(new_fact, fs, i, unique) ==
    IF i > Len(fs) THEN [facts |-> fs, unique |-> unique]
    ELSE IF new_fact = fs[i]
         THEN remove_scan_all(new_fact, swap_remove(fs, i), i, TRUE)
         ELSE remove_scan_all(new_fact, fs, i + 1, unique)

\* The inner `loop` of remove_from for one new_fact, from index i on.
RECURSIVE remove_scan(_, _, _, _)
remove_scan(new_fact, fs, i, unique) ==
    IF i > Len(fs) THEN [facts |-> fs, unique |-> unique]
    ELSE IF new_fact = fs[i]
         THEN IF unique
              THEN [facts |-> fs, unique |-> FALSE]
              ELSE remove_scan(new_fact, swap_remove(fs, i), i, TRUE)
         ELSE remove_scan(new_fact, fs, i + 1, unique)

\* remove_one that drops the fact from the cache without the `unique` test
remove_one_uncached(new_fact, c, fs) ==
    LET r == remove_scan(new_fact, fs, 1, FALSE)
    IN  [facts |-> r.facts, cache |-> c \ {new_fact}]

\* One pass of the outer `for new_fact in from` of remove_from.
remove_one(new_fact, c, fs) ==
    LET r == remove_scan(new_fact, fs, 1, FALSE)
    IN  [facts |-> r.facts,
         cache |-> IF r.unique THEN c \ {new_fact} ELSE c]

\* remove_from that stops at the first listed fact that has no occurrence
RECURSIVE remove_from_until_absent(_, _, _)
remove_from_until_absent(from, c, fs) ==
    IF from = <<>> \/ Head(from) \notin Elems(fs) THEN [facts |-> fs, cache |-> c]
    ELSE LET r == remove_one(Head(from), c, fs)
         IN  remove_from_until_absent(Tail(from), r.cache, r.facts)

RECURSIVE remove_from(_, _, _)
remove_from(from, c, fs) ==
    IF from = <<>> THEN [facts |-> fs, cache |-> c]
    ELSE LET r == remove_one(Head(from), c, fs)
         IN  remove_from(Tail(from), r.cache, r.facts)

\* the replace loop overwriting every occurrence instead of the first
RECURSIVE replace_scan_all(_, _, _, _, _)
replace_scan_all(from, to, fs, i, unique) ==
    IF i > Len(fs) THEN [facts |-> fs, unique |-> unique]
    ELSE IF from = fs[i]
         THEN replace_scan_all(from, to, [fs EXCEPT ![i] = to], i + 1, TRUE)
         ELSE replace_scan_all(from, to, fs, i + 1, unique)

\* The `for i in 0..facts.len()` loop of replace, from index i on.
RECURSIVE replace_scan(_, _, _, _, _)
replace_scan(from, to, fs, i, unique) ==
    IF i > Len(fs) THEN [facts |-> fs, unique |-> unique]
    ELSE IF from = fs[i]
         THEN IF unique
              THEN [facts |-> fs, unique |-> FALSE]
              ELSE replace_scan(from, to, [fs EXCEPT ![i] = to], i + 1, TRUE)
         ELSE replace_scan(from, to, fs, i + 1, unique)

replace(from, to, c, fs) ==
    LET r == replace_scan(from, to, fs, 1, FALSE)
    IN  [facts |-> r.facts,
         cache |-> IF r.unique THEN c \ {from} ELSE c]

\* the match whose SimplifyOne arm inserts `from` in the cache instead of `to`
ApplyInference_insert_from(x, c, fs) ==
    CASE x.kind = "ManyTrue" -> remove_from(x.from, c, fs)
      [] x.kind = "OneTrue" -> remove_from(x.from, c, fs)
      [] x.kind = "Simplify" ->
            LET r == remove_from(x.from, c, fs)
            IN  [facts |-> Append(r.facts, x.to[1]), cache |-> r.cache \cup {x.to[1]}]
      [] x.kind = "SimplifyOne" ->
            LET r == replace(x.from[1], x.to[1], c, fs)
            IN  [facts |-> r.facts, cache |-> r.cache \cup {x.from[1]}]
      [] x.kind = "SimplifyMany" ->
            LET r == remove_from(x.from, c, fs)
            IN  [facts |-> r.facts \o x.to, cache |-> r.cache \cup Elems(x.to)]
      [] x.kind = "Propagate" ->
            [facts |-> Append(fs, x.to[1]), cache |-> c \cup {x.to[1]}]

\* the match with additions that skip a fact the cache already holds
ApplyInference_skip_present(x, c, fs) ==
    CASE x.kind = "ManyTrue" -> remove_from(x.from, c, fs)
      [] x.kind = "OneTrue" -> remove_from(x.from, c, fs)
      [] x.kind = "Simplify" ->
            LET r == remove_from(x.from, c, fs)
            IN  IF x.to[1] \in r.cache THEN r
                ELSE [facts |-> Append(r.facts, x.to[1]), cache |-> r.cache \cup {x.to[1]}]
      [] x.kind = "SimplifyOne" ->
            LET r == replace(x.from[1], x.to[1], c, fs)
            IN  [facts |-> r.facts, cache |-> r.cache \cup {x.to[1]}]
      [] x.kind = "SimplifyMany" ->
            LET r == remove_from(x.from, c, fs)
            IN  [facts |-> r.facts \o x.to, cache |-> r.cache \cup Elems(x.to)]
      [] x.kind = "Propagate" ->
            IF x.to[1] \in c THEN [facts |-> fs, cache |-> c]
            ELSE [facts |-> Append(fs, x.to[1]), cache |-> c \cup {x.to[1]}]

\* The `match x` of solve_minimum: the effect of one verb on (cache, facts).
ApplyInference(x, c, fs) ==
    CASE x.kind = "ManyTrue" -> remove_from(x.from, c, fs)
      [] x.kind = "OneTrue" -> remove_from(x.from, c, fs)
      [] x.kind = "Simplify" ->
            LET r == remove_from(x.from, c, fs)
            IN  [facts |-> Append(r.facts, x.to[1]), cache |-> r.cache \cup {x.to[1]}]
      [] x.kind = "SimplifyOne" ->
            LET r == replace(x.from[1], x.to[1], c, fs)
            IN  [facts |-> r.facts, cache |-> r.cache \cup {x.to[1]}]
      [] x.kind = "SimplifyMany" ->
            LET r == remove_from(x.from, c, fs)
            IN  [facts |-> r.facts \o x.to, cache |-> r.cache \cup Elems(x.to)]
      [] x.kind = "Propagate" ->
            [facts |-> Append(fs, x.to[1]), cache |-> c \cup {x.to[1]}]

\* `for s in &facts { cache.insert(s.clone()) }`
InitCache(fs) == Elems(fs)

\* ------------------------------------------------------------------ state
VARIABLES
    facts,      \* mut facts: Vec<T>
    cache,      \* cache: HashSet<T>
    filter,     \* filter: the fact sequences inserted since it was created
    state,      \* State::Solving | State::SearchMinimum(fa)
    pc,         \* "check": top of the loop; "infer": before the infer call; "done": returned;
                \* "panic": it panicked
    memo,       \* the answers infer has given: <<cache, facts, verb>>
    traj,       \* history: the fact sequence held at each phase check, F0, F1, ...
    entered,    \* history: iteration (0-based) at which SearchMinimum was entered, -1 before
    inferCalls, \* history: number of calls of infer
    exit,       \* history: "no" | "cycle" (break at the filter hit) | "none" (infer returned None)
    last,       \* history: the last verb applied, how it was built, and the state it was applied to
    stack       \* call stack: the invocations whose infer waits for a nested solve_minimum, innermost first

vars == <<facts, cache, filter, state, pc, memo, traj, entered, inferCalls, exit, last, stack>>

Solving == [phase |-> "Solving", fa |-> <<>>]
SearchMinimum(fa) == [phase |-> "SearchMinimum", fa |-> fa]

NoCall == [name |-> "none", from |-> <<>>, to |-> <<>>]
NoLast == [verb |-> NoInference, call |-> NoCall, facts |-> <<>>, cache |-> {}]

\* the state of solve_minimum(F0, infer) when the loop is first entered, for
\* F0 any member of `starts`
InitFrom(starts) ==
    /\ facts \in starts
    /\ cache = InitCache(facts)
    /\ filter = {}
    /\ state = Solving
    /\ pc = "check"
    /\ memo = {}
    /\ traj = <<>>
    /\ entered = -1
    /\ inferCalls = 0
    /\ exit = "no"
    /\ last = NoLast
    /\ stack = <<>>

InitWith(maxInit) == InitFrom(SeqsUpTo(Facts, maxInit))

Init == InitWith(MaxInit)

InitV == InitWith(MaxInitV)

\* ------------------------------------------------------------ phase check
\* the Solving arm with the filter test negated
CheckSolving_negated ==
    /\ pc = "check"
    /\ state.phase = "Solving"
    /\ IF facts \notin filter
       THEN /\ state' = SearchMinimum(facts)
            /\ filter' = {facts}
            /\ entered' = Len(traj)
       ELSE /\ filter' = filter \cup {facts}
            /\ UNCHANGED <<state, entered>>
    /\ traj' = Append(traj, facts)
    /\ pc' = "infer"
    /\ UNCHANGED <<facts, cache, memo, inferCalls, exit, last, stack>>

\* the Solving arm with a filter that does not tell orderings apart
CheckSolving_unordered ==
    /\ pc = "check"
    /\ state.phase = "Solving"
    /\ IF \E G \in filter : \A f \in Facts : Count(f, G) = Count(f, facts)
       THEN /\ state' = SearchMinimum(facts)
            /\ filter' = {facts}
            /\ entered' = Len(traj)
       ELSE /\ filter' = filter \cup {facts}
            /\ UNCHANGED <<state, entered>>
    /\ traj' = Append(traj, facts)
    /\ pc' = "infer"
    /\ UNCHANGED <<facts, cache, memo, inferCalls, exit, last, stack>>

\* State::Solving arm, then filter.insert(&facts)
CheckSolving ==
    /\ pc = "check"
    /\ state.phase = "Solving"
    /\ IF facts \in filter
       THEN /\ state' = SearchMinimum(facts)
            /\ filter' = {facts}
            /\ entered' = Len(traj)
       ELSE /\ filter' = filter \cup {facts}
            /\ UNCHANGED <<state, entered>>
    /\ traj' = Append(traj, facts)
    /\ pc' = "infer"
    /\ UNCHANGED <<facts, cache, memo, inferCalls, exit, last, stack>>

\* the closing arm with the length comparison reversed
CheckCycleClosed_longer ==
    /\ pc = "check"
    /\ state.phase = "SearchMinimum"
    /\ facts \in filter
    /\ facts' = IF Len(state.fa) > Len(facts) THEN state.fa ELSE facts
    /\ traj' = Append(traj, facts)
    /\ pc' = "done"
    /\ exit' = "cycle"
    /\ UNCHANGED <<cache, filter, state, memo, entered, inferCalls, last, stack>>

\* the closing arm without the swap to the recorded minimum
CheckCycleClosed_current ==
    /\ pc = "check"
    /\ state.phase = "SearchMinimum"
    /\ facts \in filter
    /\ traj' = Append(traj, facts)
    /\ pc' = "done"
    /\ exit' = "cycle"
    /\ UNCHANGED <<facts, cache, filter, state, memo, entered, inferCalls, last, stack>>

\* State::SearchMinimum(ref fa) if filter.contains(&facts): break
CheckCycleClosed ==
    /\ pc = "check"
    /\ state.phase = "SearchMinimum"
    /\ facts \in filter
    /\ facts' = IF Len(state.fa) < Len(facts) THEN state.fa ELSE facts
    /\ traj' = Append(traj, facts)
    /\ pc' = "done"
    /\ exit' = "cycle"
    /\ UNCHANGED <<cache, filter, state, memo, entered, inferCalls, last, stack>>

\* the found-less arm recording a sequence that is not longer
CheckFoundLess_or_equal ==
    /\ pc = "check"
    /\ state.phase = "SearchMinimum"
    /\ facts \notin filter
    /\ Len(facts) <= Len(state.fa)
    /\ state' = SearchMinimum(facts)
    /\ filter' = filter \cup {facts}
    /\ traj' = Append(traj, facts)
    /\ pc' = "infer"
    /\ UNCHANGED <<facts, cache, memo, entered, inferCalls, exit, last, stack>>

\* State::SearchMinimum(ref fa) if facts.len() < fa.len(), then filter.insert
CheckFoundLess ==
    /\ pc = "check"
    /\ state.phase = "SearchMinimum"
    /\ facts \notin filter
    /\ Len(facts) < Len(state.fa)
    /\ state' = SearchMinimum(facts)
    /\ filter' = filter \cup {facts}
    /\ traj' = Append(traj, facts)
    /\ pc' = "infer"
    /\ UNCHANGED <<facts, cache, memo, entered, inferCalls, exit, last, stack>>

\* the default arm falling back to Solving
CheckOther_to_solving ==
    /\ pc = "check"
    /\ state.phase = "SearchMinimum"
    /\ facts \notin filter
    /\ ~(Len(facts) < Len(state.fa))
    /\ state' = Solving
    /\ filter' = filter \cup {facts}
    /\ traj' = Append(traj, facts)
    /\ pc' = "infer"
    /\ UNCHANGED <<facts, cache, memo, entered, inferCalls, exit, last, stack>>

\* the `_ => {}` arm without the filter.insert that follows the match
CheckOther_no_insert ==
    /\ pc = "check"
    /\ state.phase = "SearchMinimum"
    /\ facts \notin filter
    /\ ~(Len(facts) < Len(state.fa))
    /\ traj' = Append(traj, facts)
    /\ pc' = "infer"
    /\ UNCHANGED <<facts, cache, filter, state, memo, entered, inferCalls, exit, last, stack>>

\* `_ => {}`, then filter.insert
CheckOther ==
    /\ pc = "check"
    /\ state.phase = "SearchMinimum"
    /\ facts \notin filter
    /\ ~(Len(facts) < Len(state.fa))
    /\ filter' = filter \cup {facts}
    /\ traj' = Append(traj, facts)
    /\ pc' = "infer"
    /\ UNCHANGED <<facts, cache, state, memo, entered, inferCalls, exit, last, stack>>

PhaseCheck == CheckSolving \/ CheckCycleClosed \/ CheckFoundLess \/ CheckOther

\* ------------------------------------------------------- infer and apply
\* an infer that is free to answer differently on an input asked before
Answers_anything(x) == x = x

\* infer is a function of (cache, facts): an input asked before gets the
\* answer recorded for it.
Answers(x) ==
    \A m \in memo : (m[1] = cache /\ m[2] = facts) => m[3] = x

\* infer returned None: `else {break}`
InferNone ==
    /\ pc = "infer"
    /\ Answers(NoInference)
    /\ memo' = memo \cup {<<cache, facts, NoInference>>}
    /\ inferCalls' = inferCalls + 1
    /\ pc' = "done"
    /\ exit' = "none"
    /\ UNCHANGED <<facts, cache, filter, state, traj, entered, last, stack>>

\* infer is about to be called, and the bound on its calls is not reached
CanInfer(maxIter) == pc = "infer" /\ inferCalls < maxIter

\* infer returned Some(x), built by `call`; the verb is applied.
Step(x, call) ==
    /\ Answers(x)
    /\ LET r == ApplyInference(x, cache, facts)
       IN  /\ facts' = r.facts
           /\ cache' = r.cache
    /\ memo' = memo \cup {<<cache, facts, x>>}
    /\ inferCalls' = inferCalls + 1
    /\ last' = [verb |-> x, call |-> call, facts |-> facts, cache |-> cache]
    /\ pc' = "check"
    /\ UNCHANGED <<filter, state, traj, entered, exit, stack>>

InferOneTrue(maxIter) ==
    /\ CanInfer(maxIter)
    /\ \E f \in Facts : Step(OneTrue(f), NoCall)

InferManyTrue(maxFrom, maxIter) ==
    /\ CanInfer(maxIter)
    /\ \E F \in SeqsUpTo(Facts, maxFrom) : Step(ManyTrue(F), NoCall)

InferSimplify(maxFrom, maxIter) ==
    /\ CanInfer(maxIter)
    /\ \E F \in SeqsUpTo(Facts, maxFrom), t \in Facts : Step(Simplify(F, t), NoCall)

InferSimplifyOne(maxIter) ==
    /\ CanInfer(maxIter)
    /\ \E f \in Facts, t \in Facts : Step(SimplifyOne(f, t), NoCall)

InferSimplifyMany(maxFrom, maxTo, maxIter) ==
    /\ CanInfer(maxIter)
    /\ \E F \in SeqsUpTo(Facts, maxFrom), T \in SeqsUpTo(Facts, maxTo) :
        Step(SimplifyMany(F, T), NoCall)

InferPropagate(maxIter) ==
    /\ CanInfer(maxIter)
    /\ \E t \in Facts : Step(Propagate(t), NoCall)

\* infer builds its answer with one of the cache-aware constructors
InferReplaceOne(maxIter) ==
    /\ CanInfer(maxIter)
    /\ \E f \in Facts, t \in Facts :
        Step(Inference_replace_one(f, t, cache),
             [name |-> "replace_one", from |-> <<f>>, to |-> <<t>>])

InferReplace(maxFrom, maxIter) ==
    /\ CanInfer(maxIter)
    /\ \E F \in SeqsUpTo(Facts, maxFrom), t \in Facts :
        Step(Inference_replace(F, t, cache),
             [name |-> "replace", from |-> F, to |-> <<t>>])

InferReplaceMany(maxFrom, maxTo, maxIter) ==
    /\ CanInfer(maxIter)
    /\ \E F \in SeqsUpTo(Facts, maxFrom), T \in SeqsUpTo(Facts, maxTo) :
        Step(Inference_replace_many(F, T, cache),
             [name |-> "replace_many", from |-> F, to |-> T])

\* solve_minimum driven by a deterministic infer that answers with any verb
Next ==
    \/ PhaseCheck
    \/ InferNone
    \/ InferOneTrue(MaxIter)
    \/ InferManyTrue(MaxFrom, MaxIter)
    \/ InferSimplify(MaxFrom, MaxIter)
    \/ InferSimplifyOne(MaxIter)
    \/ InferSimplifyMany(MaxFrom, MaxTo, MaxIter)
    \/ InferPropagate(MaxIter)

Spec == Init /\ [][Next]_vars

\* The first iteration of solve_minimum (where the state is Solving, and
\* infer is called once) and the phase check after it, from any initial
\* sequence, with any verb and any call of a constructor.
NextV ==
    \/ CheckSolving
    \/ InferNone
    \/ InferOneTrue(1)
    \/ InferManyTrue(MaxFromV, 1)
    \/ InferSimplify(MaxFromV, 1)
    \/ InferSimplifyOne(1)
    \/ InferSimplifyMany(MaxFromV, MaxToV, 1)
    \/ InferPropagate(1)
    \/ InferReplaceOne(1)
    \/ InferReplace(MaxFromV, 1)
    \/ InferReplaceMany(MaxFromV, MaxToV, 1)

SpecV == InitV /\ [][NextV]_vars

\* ------------------------------------------------- the documented examples
\* One call of a given infer function: `x` is what it answers on the current
\* (cache, facts).
InferBy(x) ==
    /\ pc = "infer"
    /\ IF x = NoInference THEN InferNone ELSE Step(x, NoCall)

\* --- Example: Walk
Left == "Left"
Right == "Right"
Up == "Up"
Down == "Down"
Expr == {Left, Right, Up, Down}

\* infer of the Walk example
walk_infer(c, fs) ==
    IF Left \in c /\ Right \in c THEN ManyTrue(<<Left, Right>>)
    ELSE IF Up \in c /\ Down \in c THEN ManyTrue(<<Up, Down>>)
    ELSE NoInference

\* `start` of the Walk example
walk_start == <<Left, Left, Up, Left, Right, Down, Down, Right>>

\* length of the other walks the example's infer is run on
MaxWalk == 4

InitWalk == InitFrom(SeqsUpTo(Expr, MaxWalk) \cup {walk_start})

InferWalk == InferBy(walk_infer(cache, facts))

NextWalk == CheckSolving \/ InferWalk

SpecWalk == InitWalk /\ [][NextWalk]_vars

\* --- Example: Less or Equal
Var == {"X", "Y", "Z"}
Le(a, b) == <<"Le", a, b>>
Eq(a, b) == <<"Eq", a, b>>

\* the least index of a non-empty set of indices: where a `for` loop that
\* returns at the first match stops
First(S) == CHOOSE i \in S : \A j \in S : i <= j

\* first loop, ea = Le(a, b) with a # b: `for eb in facts` looking for Le(b, a)
le_antisymmetry(ea, c, fs) ==
    LET J == {j \in 1..Len(fs) :
                 fs[j][1] = "Le" /\ ea[2] = fs[j][3] /\ ea[3] = fs[j][2]}
    IN  IF J = {} THEN NoInference
        ELSE Inference_replace(<<ea, fs[First(J)]>>, Eq(ea[2], ea[3]), c)

\* first loop, ea = Eq(a, b): what the body of `for eb in facts` returns for
\* one eb (NoInference: it returns nothing and the loop goes on)
le_substitute(ea, eb, c) ==
    IF eb[1] = "Le"
    THEN IF eb[2] = ea[3] THEN Inference_replace_one(eb, Le(ea[2], eb[3]), c)
         ELSE IF eb[3] = ea[3] THEN Inference_replace_one(eb, Le(eb[2], ea[2]), c)
         ELSE NoInference
    ELSE IF ea[3] = eb[2] THEN Inference_replace_one(eb, Eq(ea[2], eb[3]), c)
         ELSE NoInference

\* first loop: what its body returns for one ea
le_simplify_at(ea, c, fs) ==
    IF ea[1] = "Le"
    THEN IF ea[2] = ea[3] THEN OneTrue(ea) ELSE le_antisymmetry(ea, c, fs)
    ELSE LET J == {j \in 1..Len(fs) : le_substitute(ea, fs[j], c) # NoInference}
         IN  IF J = {} THEN NoInference ELSE le_substitute(ea, fs[First(J)], c)

\* first loop: the simplification rules
le_simplify(c, fs) ==
    LET I == {i \in 1..Len(fs) : le_simplify_at(fs[i], c, fs) # NoInference}
    IN  IF I = {} THEN NoInference ELSE le_simplify_at(fs[First(I)], c, fs)

\* second loop: transitivity, for the first pair whose conclusion is new
le_propagate(c, fs) ==
    LET New(i, j) == Le(fs[i][2], fs[j][3])
        Fires(i, j) == /\ fs[i][1] = "Le"
                       /\ fs[j][1] = "Le"
                       /\ fs[i][3] = fs[j][2]
                       /\ New(i, j) \notin c
        I == {i \in 1..Len(fs) : \E j \in 1..Len(fs) : Fires(i, j)}
    IN  IF I = {} THEN NoInference
        ELSE LET i == First(I)
                 j == First({k \in 1..Len(fs) : Fires(i, k)})
             IN  Propagate(New(i, j))

\* the Less or Equal rules without the simplification loop
le_infer_propagate_only(c, fs) == le_propagate(c, fs)

\* infer of the Less or Equal example
le_infer(c, fs) ==
    IF le_simplify(c, fs) # NoInference THEN le_simplify(c, fs)
    ELSE le_propagate(c, fs)

\* `start` of the Less or Equal example
le_start == <<Le("X", "Y"), Le("Y", "Z"), Le("Z", "X")>>

\* length of the sequences of Le facts the example's infer is run on
MaxLe == 3

InitLe == InitFrom(SeqsUpTo({Le(a, b) : a, b \in Var}, MaxLe))

InferLe == InferBy(le_infer(cache, facts))

NextLe == CheckSolving \/ InferLe

SpecLe == InitLe /\ [][NextLe]_vars

\* --- Example: Sieve of Eratosthenes (examples/prime.rs)
Prime(i) == <<"Prime", i>>
Upto(n) == <<"Upto", n>>

\* The body of `for (ind, ea) in facts.iter().enumerate()` for one ind
\* (NoInference: it returns nothing and the loop goes on).  The example's
\* SimplifyTrue {from: vec![..]} is the vector removal verb, ManyTrue.
prime_infer_at(ind, c, fs) ==
    LET ea == fs[ind]
    IN  IF ea[1] = "Prime"
        THEN IF \E ind2 \in 1..Len(fs) :
                    /\ ind2 # ind
                    /\ fs[ind2][1] = "Prime"
                    /\ ea[2] % fs[ind2][2] = 0
             THEN ManyTrue(<<ea>>)
             ELSE NoInference
        ELSE IF ea[2] > 1
             THEN IF Prime(ea[2]) \notin c /\ Upto(ea[2] - 1) \notin c
                  THEN SimplifyMany(<<ea>>, <<Prime(ea[2]), Upto(ea[2] - 1)>>)
                  ELSE NoInference
             ELSE ManyTrue(<<ea>>)

\* the sieve rules without `if ind == ind2 {continue}`
prime_infer_self(c, fs) ==
    LET I == {i \in 1..Len(fs) :
                 \/ prime_infer_at(i, c, fs) # NoInference
                 \/ fs[i][1] = "Prime"}
    IN  IF I = {} THEN NoInference
        ELSE IF fs[First(I)][1] = "Prime" THEN ManyTrue(<<fs[First(I)]>>)
        ELSE prime_infer_at(First(I), c, fs)

\* infer of examples/prime.rs
prime_infer(c, fs) ==
    LET I == {i \in 1..Len(fs) : prime_infer_at(i, c, fs) # NoInference}
    IN  IF I = {} THEN NoInference ELSE prime_infer_at(First(I), c, fs)

\* the largest n of the starts [Upto(n)]; the example's start is [Upto(100)]
MaxSieve == 100

InitSieve == InitFrom({<<Upto(n)>> : n \in 0..MaxSieve})

InferSieve == InferBy(prime_infer(cache, facts))

NextSieve == CheckSolving \/ InferSieve

SpecSieve == InitSieve /\ [][NextSieve]_vars

\* --- Any infer: its answers need not be a function of (cache, facts)
\* number of calls of infer followed
MaxIterAny == 5
MaxInitAny == 1
MaxFromAny == 2
MaxToAny == 1

InitAny == InitWith(MaxInitAny)

\* infer returned None, and the recorded minimum is returned when shorter
InferNoneAny_best ==
    /\ CanInfer(MaxIterAny)
    /\ inferCalls' = inferCalls + 1
    /\ facts' = IF state.phase = "SearchMinimum" /\ Len(state.fa) < Len(facts)
                THEN state.fa ELSE facts
    /\ pc' = "done"
    /\ exit' = "none"
    /\ UNCHANGED <<cache, filter, state, memo, traj, entered, last, stack>>

\* infer returned None, whatever it answered before
InferNoneAny ==
    /\ CanInfer(MaxIterAny)
    /\ inferCalls' = inferCalls + 1
    /\ pc' = "done"
    /\ exit' = "none"
    /\ UNCHANGED <<facts, cache, filter, state, memo, traj, entered, last, stack>>

\* infer returned Some(x), whatever it answered before
StepAny(x) ==
    /\ LET r == ApplyInference(x, cache, facts)
       IN  /\ facts' = r.facts
           /\ cache' = r.cache
    /\ inferCalls' = inferCalls + 1
    /\ last' = [verb |-> x, call |-> NoCall, facts |-> facts, cache |-> cache]
    /\ pc' = "check"
    /\ UNCHANGED <<filter, state, memo, traj, entered, exit, stack>>

InferAnyOneTrue ==
    /\ CanInfer(MaxIterAny)
    /\ \E f \in Facts : StepAny(OneTrue(f))

InferAnyManyTrue ==
    /\ CanInfer(MaxIterAny)
    /\ \E F \in SeqsUpTo(Facts, MaxFromAny) : StepAny(ManyTrue(F))

InferAnySimplify ==
    /\ CanInfer(MaxIterAny)
    /\ \E F \in SeqsUpTo(Facts, MaxFromAny), t \in Facts : StepAny(Simplify(F, t))

InferAnySimplifyOne ==
    /\ CanInfer(MaxIterAny)
    /\ \E f \in Facts, t \in Facts : StepAny(SimplifyOne(f, t))

InferAnySimplifyMany ==
    /\ CanInfer(MaxIterAny)
    /\ \E F \in SeqsUpTo(Facts, MaxFromAny), T \in SeqsUpTo(Facts, MaxToAny) :
           StepAny(SimplifyMany(F, T))

InferAnyPropagate ==
    /\ CanInfer(MaxIterAny)
    /\ \E f \in Facts : StepAny(Propagate(f))

NextAny ==
    \/ CheckSolving
    \/ CheckCycleClosed
    \/ CheckFoundLess
    \/ CheckOther
    \/ InferNoneAny
    \/ InferAnyOneTrue
    \/ InferAnyManyTrue
    \/ InferAnySimplify
    \/ InferAnySimplifyOne
    \/ InferAnySimplifyMany
    \/ InferAnyPropagate

SpecAny == InitAny /\ [][NextAny]_vars

\* --- Recursive theorem proving (examples/magic_square.rs)
\* The facts of the example that carry its Narrow rule: the tactics
\* CheckRange, UniqueAssignments and RemoveRangeWhenAssigned, ranges,
\* assignments `var = x` (Sum(vec![Var(var)], vec![Const(x)])), Narrow
\* directives, alternatives and False.  On fact sequences of these, the rules
\* that the other tactics (SortAll, ExpandAll, RemoveRefl, ...) enable are
\* not reached, since infer tests the cache for the tactic first.
False == <<"False">>
CheckRange == <<"CheckRange">>
UniqueAssignments == <<"UniqueAssignments">>
RemoveRangeWhenAssigned == <<"RemoveRangeWhenAssigned">>
Range(var, start, end) == <<"Range", var, start, end>>
Assignment(var, x) == <<"Sum", var, x>>
Narrow(var) == <<"Narrow", var>>
Alternatives(var, alternatives) == <<"Alternatives", var, alternatives>>

\* `if cache.contains(&CheckRange)`: an assignment outside a range of its variable
check_range(fs) ==
    \E i, j \in 1..Len(fs) :
        /\ fs[i][1] = "Range"
        /\ fs[j][1] = "Sum"
        /\ fs[i][2] = fs[j][2]
        /\ (fs[j][3] < fs[i][3] \/ fs[j][3] > fs[i][4])

\* `if cache.contains(&UniqueAssignments)`: two variables with the same value
unique_assignments(fs) ==
    \E i, j \in 1..Len(fs) :
        /\ fs[i][1] = "Sum"
        /\ fs[j][1] = "Sum"
        /\ fs[j][2] # fs[i][2]
        /\ fs[j][3] = fs[i][3]

\* `if cache.contains(&RemoveRangeWhenAssigned)` for one ea: the first range
\* of the variable ea assigns
remove_range_at(ea, fs) ==
    IF ea[1] # "Sum" THEN NoInference
    ELSE LET J == {j \in 1..Len(fs) : fs[j][1] = "Range" /\ fs[j][2] = ea[2]}
         IN  IF J = {} THEN NoInference ELSE OneTrue(fs[First(J)])

\* infer has reached the Narrow rule for ea and the range eb: it is about to
\* call solve_minimum for each value of the range
NarrowCalls(ea, eb) == [kind |-> "Narrow", from |-> <<ea>>, to |-> <<eb>>]

\* the last loop of infer, for one ea
narrow_at(ea, c, fs) ==
    IF ea[1] = "Alternatives"
    THEN IF Len(ea[3]) = 1
         THEN Inference_replace_one(ea, Assignment(ea[2], ea[3][1]), c)
         ELSE IF Len(ea[3]) = 0 THEN Propagate(False)
         ELSE NoInference
    ELSE IF ea[1] = "Narrow"
    THEN LET J == {j \in 1..Len(fs) : fs[j][1] = "Range" /\ fs[j][2] = ea[2]}
         IN  IF J = {} THEN NoInference ELSE NarrowCalls(ea, fs[First(J)])
    ELSE NoInference

\* infer up to the point where it answers or calls solve_minimum
ms_rules(c, fs) ==
    LET R == {i \in 1..Len(fs) : remove_range_at(fs[i], fs) # NoInference}
        N == {i \in 1..Len(fs) : narrow_at(fs[i], c, fs) # NoInference}
    IN  IF False \in c THEN NoInference
        ELSE IF CheckRange \in c /\ check_range(fs) THEN Propagate(False)
        ELSE IF UniqueAssignments \in c /\ unique_assignments(fs) THEN Propagate(False)
        ELSE IF RemoveRangeWhenAssigned \in c /\ R # {}
             THEN remove_range_at(fs[First(R)], fs)
        ELSE IF N # {} THEN narrow_at(fs[First(N)], c, fs)
        ELSE NoInference

\* the largest u8: `start` and `end` of a Range are u8
U8Max == 255

\* `end+1` of `for k in start..end+1` overflows u8 when end is u8::MAX: a
\* build with overflow checks panics there, a build without them wraps to 0
overflows(eb) == eb[4] = U8Max

\* `end+1` as a build without overflow checks computes it
range_end(eb) == (eb[4] + 1) % (U8Max + 1)

\* new_facts of the Narrow rule: the facts other than the directive, and var = k
new_facts(fs, ea, var, k) ==
    SelectSeq(fs, LAMBDA f : f # ea) \o <<Assignment(var, k)>>

\* what the nested call's result does to `alternatives`
push_alternative(alternatives, res, k) ==
    IF False \notin Elems(res) THEN Append(alternatives, k) ELSE alternatives

\* solve_minimum and the example's infer as functions, with every nested
\* call evaluated on its own.  Each gives the value a build without overflow
\* checks computes and, as `overflow`, whether an `end+1` overflowed on the
\* way: a build with overflow checks panics at the first one and gives no
\* value.
RECURSIVE solve_minimum_loop(_, _, _, _)
RECURSIVE ms_alternatives(_, _, _, _)
RECURSIVE ms_infer(_, _)

solve_minimum_fn(F0) == solve_minimum_loop(F0, InitCache(F0), {}, Solving)

\* `for k in start..end+1` of the Narrow rule, from k on
ms_alternatives(fs, ea, eb, k) ==
    IF k >= range_end(eb) THEN [alternatives |-> <<>>, overflow |-> FALSE]
    ELSE LET res == solve_minimum_fn(new_facts(fs, ea, eb[2], k))
             rest == ms_alternatives(fs, ea, eb, k + 1)
         IN  [alternatives |-> push_alternative(<<>>, res.facts, k) \o rest.alternatives,
              overflow |-> res.overflow \/ rest.overflow]

ms_infer(c, fs) ==
    LET d == ms_rules(c, fs)
        a == ms_alternatives(fs, d.from[1], d.to[1], d.to[1][3])
    IN  IF d.kind = "Narrow"
        THEN [verb |-> SimplifyOne(d.from[1], Alternatives(d.from[1][2], a.alternatives)),
              overflow |-> overflows(d.to[1]) \/ a.overflow]
        ELSE [verb |-> d, overflow |-> FALSE]

\* one pass of the loop of solve_minimum and the passes after it
solve_minimum_loop(fs, c, flt, st) ==
    LET closed == st.phase = "SearchMinimum" /\ fs \in flt
        st1 == IF st.phase = "Solving"
               THEN IF fs \in flt THEN SearchMinimum(fs) ELSE st
               ELSE IF Len(fs) < Len(st.fa) THEN SearchMinimum(fs) ELSE st
        flt1 == IF st.phase = "Solving" /\ fs \in flt THEN {fs} ELSE flt \cup {fs}
        x == ms_infer(c, fs)
        r == ApplyInference(x.verb, c, fs)
        n == solve_minimum_loop(r.facts, r.cache, flt1, st1)
    IN  IF closed
        THEN [facts |-> IF Len(st.fa) < Len(fs) THEN st.fa ELSE fs, overflow |-> FALSE]
        ELSE IF x.verb = NoInference THEN [facts |-> fs, overflow |-> FALSE]
        ELSE [facts |-> n.facts, overflow |-> x.overflow \/ n.overflow]

\* the frame of the running invocation: its locals
Frame ==
    [facts |-> facts, cache |-> cache, filter |-> filter, state |-> state,
     traj |-> traj, entered |-> entered, inferCalls |-> inferCalls,
     exit |-> exit, last |-> last]

\* a new invocation solve_minimum(F0, infer) starts
Enter(F0) ==
    /\ facts' = F0
    /\ cache' = InitCache(F0)
    /\ filter' = {}
    /\ state' = Solving
    /\ pc' = "check"
    /\ traj' = <<>>
    /\ entered' = -1
    /\ inferCalls' = 0
    /\ exit' = "no"
    /\ last' = NoLast

\* the invocation on top of the stack gets the answer x from its infer
\* and applies it
Resume(top, x, c) ==
    /\ LET r == ApplyInference(x, c, top.frame.facts)
       IN  /\ facts' = r.facts
           /\ cache' = r.cache
    /\ filter' = top.frame.filter
    /\ state' = top.frame.state
    /\ traj' = top.frame.traj
    /\ entered' = top.frame.entered
    /\ exit' = top.frame.exit
    /\ inferCalls' = top.frame.inferCalls + 1
    /\ last' = [verb |-> x, call |-> NoCall,
                facts |-> top.frame.facts, cache |-> top.frame.cache]
    /\ memo' = memo \cup {<<top.frame.cache, top.frame.facts, x>>}
    /\ pc' = "check"
    /\ stack' = Tail(stack)

\* Resume with the presence set of the nested invocation left in place
Return_shared_cache(top, alternatives) ==
    Resume(top, SimplifyOne(top.ea, Alternatives(top.ea[2], alternatives)), cache)

\* the Narrow rule returns SimplifyOne {from: ea, to: Alternatives(..)} to
\* the invocation that called infer
Return(top, alternatives) ==
    Resume(top, SimplifyOne(top.ea, Alternatives(top.ea[2], alternatives)), top.frame.cache)

\* infer answers without calling solve_minimum
InferMs ==
    /\ pc = "infer"
    /\ ms_rules(cache, facts).kind # "Narrow"
    /\ InferBy(ms_rules(cache, facts))

\* the run has passed an overflowing `end+1` that wrapped: the build has no
\* overflow checks
Wrapped ==
    \E m \in memo :
        LET d == ms_rules(m[1], m[2])
        IN  d.kind = "Narrow" /\ overflows(d.to[1])

\* the Narrow rule over an empty range `start..end+1` (end + 1 wrapped to 0
\* included): no nested call
NarrowEmpty ==
    /\ pc = "infer"
    /\ LET d == ms_rules(cache, facts)
       IN  /\ d.kind = "Narrow"
           /\ d.to[1][3] >= range_end(d.to[1])
           /\ Step(SimplifyOne(d.from[1], Alternatives(d.from[1][2], <<>>)), NoCall)

\* the Narrow rule over a range ending at u8::MAX in a build with overflow
\* checks: `end+1` panics ("attempt to add with overflow") and the process ends
NarrowOverflow ==
    /\ pc = "infer"
    /\ ~Wrapped
    /\ LET d == ms_rules(cache, facts)
       IN  d.kind = "Narrow" /\ overflows(d.to[1])
    /\ inferCalls' = inferCalls + 1
    /\ pc' = "panic"
    /\ UNCHANGED <<facts, cache, filter, state, memo, traj, entered, exit, last, stack>>

\* the Narrow rule calls solve_minimum(new_facts, infer) for the first value
NarrowCall ==
    /\ pc = "infer"
    /\ LET d == ms_rules(cache, facts)
       IN  /\ d.kind = "Narrow"
           /\ d.to[1][3] < range_end(d.to[1])
           /\ stack' = <<[frame |-> Frame, ea |-> d.from[1], eb |-> d.to[1],
                          k |-> d.to[1][3], alternatives |-> <<>>]>> \o stack
           /\ Enter(new_facts(facts, d.from[1], d.to[1][2], d.to[1][3]))
    /\ UNCHANGED memo

\* a nested call returned and the range has a next value: the next call
NarrowNext ==
    /\ pc = "done"
    /\ stack # <<>>
    /\ LET top == Head(stack)
       IN  /\ top.k + 1 < range_end(top.eb)
           /\ stack' = <<[top EXCEPT !.k = top.k + 1,
                                     !.alternatives = push_alternative(@, facts, top.k)]>>
                           \o Tail(stack)
           /\ Enter(new_facts(top.frame.facts, top.ea, top.eb[2], top.k + 1))
    /\ UNCHANGED memo

\* the nested call for the last value returned: infer returns
NarrowReturn ==
    /\ pc = "done"
    /\ stack # <<>>
    /\ LET top == Head(stack)
       IN  /\ top.k + 1 >= range_end(top.eb)
           /\ Return(top, push_alternative(top.alternatives, facts, top.k))

\* the facts the starts are drawn from, in the order they are listed
ms_pool ==
    <<CheckRange, UniqueAssignments, RemoveRangeWhenAssigned,
      Range("a", 1, 2), Range("a", 2, 3), Range("b", 2, 2), Range("c", 2, 1),
      Range("c", U8Max - 1, U8Max),
      Assignment("b", 2), Narrow("a"), Narrow("b"), Narrow("c")>>

\* the subsequence of s at the indices in S
RECURSIVE Pick(_, _, _)
Pick(s, S, i) ==
    IF i > Len(s) THEN <<>>
    ELSE (IF i \in S THEN <<s[i]>> ELSE <<>>) \o Pick(s, S, i + 1)

InitRec == InitFrom({Pick(ms_pool, S, 1) : S \in SUBSET (1..Len(ms_pool))})

NextRec ==
    \/ CheckSolving
    \/ InferMs
    \/ NarrowEmpty
    \/ NarrowOverflow
    \/ NarrowCall
    \/ NarrowNext
    \/ NarrowReturn

SpecRec == InitRec /\ [][NextRec]_vars

TypeOK ==
    /\ pc \in {"check", "infer", "done", "panic"}
    /\ exit \in {"no", "cycle", "none"}
    /\ state.phase \in {"Solving", "SearchMinimum"}
    /\ cache \subseteq Facts
    /\ inferCalls \in Nat

\* ------------------------------------------------------------ properties
\* a verb has just been applied by the last step
Applied == pc = "check" /\ inferCalls >= 1

\* I1 for a cache and a fact sequence
I1(c, fs) == \A f \in Facts : f \in c <=> Count(f, fs) >= 1

\* C1: at every iteration boundary (initially and after any verb), a fact is
\* in the cache if and only if the fact sequence holds an occurrence of it.
C1_CacheCorrect == pc = "check" => I1(cache, facts)

\* the shortest length among traj[a..b]
MinLen(a, b) ==
    CHOOSE n \in {Len(traj[k]) : k \in a..b} :
        \A k \in a..b : n <= Len(traj[k])

\* C2: when solve_minimum returns by closing a cycle, the length of the
\* result is the minimum length over the sequences held from the iteration
\* that entered SearchMinimum up to the iteration that closed the cycle.
C2_CycleMinimality ==
    (pc = "done" /\ exit = "cycle") =>
        /\ entered >= 0
        /\ Len(facts) = MinLen(entered + 1, Len(traj))

\* a cycle closed whose shortest sequence was neither the one at entry nor
\* the one at closure
C2_Witness ==
    /\ pc = "done" /\ exit = "cycle"
    /\ Len(facts) < Len(traj[entered + 1])
    /\ Len(facts) < Len(traj[Len(traj)])
    /\ I1(cache, facts)

\* the trajectory revisits an earlier fact sequence
Revisits(j) == \E i \in 1..(j - 1) : traj[i] = traj[j]
HasRevisit == \E j \in DOMAIN traj : Revisits(j)
FirstJ == CHOOSE j \in DOMAIN traj : Revisits(j) /\ \A k \in 1..(j - 1) : ~Revisits(k)
FirstI == CHOOSE i \in 1..(FirstJ - 1) : traj[i] = traj[FirstJ]
Period == FirstJ - FirstI

\* C3: for a deterministic infer whose trajectory first revisits F_i at F_j
\* (period p = j - i), solve_minimum exits exactly at iteration j + p, by the
\* filter hit, without calling infer on F_(j+p).  (traj is 1-based: F_k is
\* traj[k + 1].)
C3_ExitAfterOneTraversal ==
    HasRevisit =>
        /\ Len(traj) <= FirstJ + Period
        /\ pc = "done" => (Len(traj) = FirstJ + Period /\ exit = "cycle"
                           /\ inferCalls = Len(traj) - 1)
        /\ Len(traj) = FirstJ + Period => pc = "done"

\* C4: if infer returns nothing on F0, infer was called exactly once, the
\* result is F0 as the same ordered sequence, and SearchMinimum was never
\* entered.
C4_NoOpIdempotence ==
    (pc = "done" /\ exit = "none" /\ Len(traj) = 1) =>
        /\ facts = traj[1]
        /\ inferCalls = 1
        /\ state = Solving
        /\ entered = -1

\* infer returned nothing on the empty initial sequence
C4_Witness ==
    pc = "done" /\ exit = "none" /\ Len(traj) = 1 /\ traj[1] = <<>> /\ facts = <<>>

\* C5: OneTrue, ManyTrue and the removal part of Simplify / SimplifyMany
\* remove, for every fact f, exactly min(k, count(f)) occurrences, k being the
\* number of times f is listed in from; what is added is the to payload, so
\* a fact that is not listed keeps its count.
C5_RemovalColumn ==
    (Applied /\ last.verb.kind \in {"OneTrue", "ManyTrue", "Simplify", "SimplifyMany"}) =>
        \A f \in Facts :
            Count(f, facts) =
                Count(f, last.facts)
                - Min(Count(f, last.verb.from), Count(f, last.facts))
                + Count(f, last.verb.to)

\* ManyTrue listing a fact twice removed two of its three copies
C5_Witness ==
    /\ Applied
    /\ last.verb = ManyTrue(<<1, 1>>)
    /\ Count(1, last.facts) = 3
    /\ Count(1, facts) = 1

\* C6: Simplify, SimplifyMany and Propagate append their to payload at the
\* tail, one occurrence per entry, whether or not the fact is present; the
\* rest of the sequence is what the removals left; every added fact is in
\* the cache; Propagate changes the cache by at most the added fact.
C6_AdditionColumn ==
    (Applied /\ last.verb.kind \in {"Simplify", "SimplifyMany", "Propagate"}) =>
        LET n == Len(facts)
            k == Len(last.verb.to)
        IN  /\ n >= k
            /\ SubSeq(facts, n - k + 1, n) = last.verb.to
            /\ \A f \in Facts :
                   Count(f, SubSeq(facts, 1, n - k)) =
                       Count(f, last.facts)
                       - Min(Count(f, last.verb.from), Count(f, last.facts))
            /\ Elems(last.verb.to) \subseteq cache
            /\ last.verb.kind = "Propagate" =>
                   /\ SubSeq(facts, 1, n - 1) = last.facts
                   /\ cache = last.cache \cup Elems(last.verb.to)
                   /\ (last.verb.to[1] \in last.cache => cache = last.cache)

\* a fact already present was propagated: one more occurrence at the tail
C6_Witness ==
    /\ Applied
    /\ last.verb = Propagate(1)
    /\ last.facts = <<1, 2>>
    /\ facts = <<1, 2, 1>>
    /\ cache = last.cache

\* C7: for f # t, SimplifyOne{from: f, to: t} leaves one more t and one f
\* less (or still none).
C7_ReplaceOne ==
    (Applied /\ last.verb.kind = "SimplifyOne" /\ last.verb.from # last.verb.to) =>
        LET f == last.verb.from[1]
            t == last.verb.to[1]
        IN  /\ Count(t, facts) = Count(t, last.facts) + 1
            /\ Count(f, facts) =
                   IF Count(f, last.facts) = 0 THEN 0 ELSE Count(f, last.facts) - 1

\* C8: OneTrue / ManyTrue naming absent facts change nothing for them: with
\* every entry absent the sequence and the cache are identical; with a mix
\* only the present entries are removed; I1 still holds afterwards.
C8_AbsentNoOp ==
    (Applied /\ last.verb.kind \in {"OneTrue", "ManyTrue"}) =>
        /\ (Elems(last.verb.from) \cap Elems(last.facts) = {}) =>
               (facts = last.facts /\ cache = last.cache)
        /\ \A f \in Facts :
               Count(f, facts) =
                   Count(f, last.facts)
                   - (IF Count(f, last.facts) = 0 THEN 0
                      ELSE Min(Count(f, last.verb.from), Count(f, last.facts)))
        /\ I1(last.cache, last.facts) => I1(cache, facts)

\* ManyTrue with an absent and a present entry removed only the present one
C8_Witness ==
    /\ Applied
    /\ last.verb = ManyTrue(<<1, 2>>)
    /\ last.facts = <<2, 2>>
    /\ facts = <<2>>
    /\ cache = {2}

\* C9: SimplifyOne{from: f, to: f} leaves the fact sequence and the cache
\* unchanged.
C9_ReplaceSelf ==
    (Applied /\ last.verb.kind = "SimplifyOne" /\ last.verb.from = last.verb.to) =>
        (facts = last.facts /\ cache = last.cache)

\* C10: replace_one answers OneTrue{from} when to is in the cache and
\* SimplifyOne{from, to} otherwise; replace answers ManyTrue{from} when to is
\* in the cache and Simplify{from, to} otherwise; from is passed through and
\* the verb is applied to the cache the constructor was given.
C10_CheckedConstructors ==
    /\ (inferCalls >= 1 /\ last.call.name = "replace_one") =>
           LET f == last.call.from[1]
               t == last.call.to[1]
           IN  /\ t \in last.cache =>
                      (last.verb.kind = "OneTrue" /\ last.verb.from = <<f>> /\ last.verb.to = <<>>)
               /\ t \notin last.cache =>
                      (last.verb.kind = "SimplifyOne" /\ last.verb.from = <<f>> /\ last.verb.to = <<t>>)
    /\ (inferCalls >= 1 /\ last.call.name = "replace") =>
           LET t == last.call.to[1]
           IN  /\ last.verb.from = last.call.from
               /\ t \in last.cache => (last.verb.kind = "ManyTrue" /\ last.verb.to = <<>>)
               /\ t \notin last.cache => (last.verb.kind = "Simplify" /\ last.verb.to = <<t>>)
    /\ (inferCalls >= 1 /\ last.call.name # "none") => last.cache = InitCache(last.facts)

\* replace was called with a target already in the cache
C10_Witness ==
    /\ Applied
    /\ last.call = [name |-> "replace", from |-> <<1, 2>>, to |-> <<2>>]
    /\ 2 \in last.cache
    /\ last.verb = ManyTrue(<<1, 2>>)

\* C11: replace_many answers SimplifyMany{from, to'} where from is passed
\* through and to' holds exactly the entries of to that are not in the
\* cache, each with its multiplicity in to, and no entry that is in the cache.
C11_ReplaceMany ==
    (inferCalls >= 1 /\ last.call.name = "replace_many") =>
        /\ last.verb.kind = "SimplifyMany"
        /\ last.verb.from = last.call.from
        /\ \A f \in Facts :
               Count(f, last.verb.to) =
                   IF f \in last.cache THEN 0 ELSE Count(f, last.call.to)

\* replace_many dropped the cached entry and kept both copies of the other
C11_Witness ==
    /\ Applied
    /\ last.call.name = "replace_many"
    /\ last.cache = {1}
    /\ Count(1, last.call.to) >= 1
    /\ Count(2, last.call.to) >= 1
    /\ Elems(last.verb.to) = {2}

\* C12: from a state satisfying I1 in which every from-fact is present, after
\* the verb returned by replace_one(from, to, cache) or replace(from_vec, to,
\* cache) is applied, the fact sequence holds an occurrence of to.
C12_TargetPresent ==
    (/\ Applied
     /\ last.call.name \in {"replace_one", "replace"}
     /\ I1(last.cache, last.facts)
     /\ Elems(last.call.from) \subseteq Elems(last.facts)) =>
        Count(last.call.to[1], facts) >= 1

\* the facts that were the to / Propagate payload of a verb infer answered
Payloads == UNION {Elems(m[3].to) : m \in memo}

\* the initial sequence F0
F0 == IF traj = <<>> THEN facts ELSE traj[1]

\* C13: every fact in the current sequence, in the cache and in the recorded
\* minimum is a member of F0 or was the to / Propagate payload of a verb
\* applied earlier.
C13_NoSpontaneousFacts ==
    (Elems(facts) \cup cache \cup Elems(state.fa)) \subseteq (Elems(F0) \cup Payloads)

\* a returned sequence holds a fact that F0 did not hold
C13_Witness ==
    /\ pc = "done"
    /\ exit = "cycle"
    /\ state.fa # <<>>
    /\ \E f \in Elems(facts) : f \notin Elems(F0)

\* C20: after remove_from (OneTrue / ManyTrue) every listed fact is in the
\* cache if and only if an occurrence of it remains, whatever the number of
\* copies the sequence held.
C20_RemoveFromExact ==
    (Applied /\ last.verb.kind \in {"OneTrue", "ManyTrue"}) =>
        \A f \in Elems(last.verb.from) : f \in cache <=> Count(f, facts) >= 1

\* one of three copies was consumed: two remain and the fact stays cached
C20_Witness ==
    /\ Applied
    /\ last.verb = OneTrue(1)
    /\ Count(1, last.facts) = 3
    /\ Count(1, facts) = 2
    /\ 1 \in cache

\* solve_minimum has returned `facts` for the Walk example's start
WalkReturned == pc = "done" /\ traj[1] = walk_start

\* C16 (as stated): for the Walk example's start solve_minimum returns a
\* sequence of size 2 that is a permutation of [Left, Up].
C16_WalkLeftUp ==
    WalkReturned =>
        /\ Len(facts) = 2
        /\ Count(Left, facts) = 1
        /\ Count(Up, facts) = 1

\* solve_minimum has returned `facts` for the Less or Equal example's start
LeReturned == pc = "done" /\ traj[1] = le_start

\* C17 (as stated): for the Less or Equal example's start solve_minimum
\* returns a sequence of size at most 3 that holds no Le fact and consists of
\* three Eq facts.
C17_ThreeEq ==
    LeReturned =>
        /\ Len(facts) <= 3
        /\ \A i \in 1..Len(facts) : facts[i][1] = "Eq"
        /\ Len(facts) = 3

\* C17 (amended): for the Less or Equal example's start solve_minimum
\* returns, by infer answering None, the two Eq facts Eq(Z, X) and Eq(Z, Y)
\* and no Le fact; for every start of Le facts the loop is left by infer
\* answering None, without a repeated fact sequence.
C17_TwoEq ==
    /\ LeReturned =>
           /\ exit = "none"
           /\ facts = <<Eq("Z", "X"), Eq("Z", "Y")>>
    /\ state = Solving
    /\ pc = "done" => exit = "none"

\* the example's run: transitivity once, then three simplifications
C17_Witness ==
    /\ LeReturned
    /\ inferCalls = 5
    /\ \E m \in memo : m[3].kind = "Propagate"
    /\ \E m \in memo : m[3].kind = "SimplifyOne"
    /\ Len(facts) = 2

IsPrime(k) == k >= 2 /\ \A d \in 2..(k - 1) : k % d # 0

\* the n of the start [Upto(n)]
SieveN == IF traj = <<>> THEN facts[1][2] ELSE traj[1][1][2]

\* C18: for F0 = [Upto(n)] and the sieve rules solve_minimum ends because
\* infer returns nothing, and returns exactly the primes in 2..n, each once,
\* and no Upto fact (25 facts for n = 100).
C18_Sieve ==
    pc = "done" =>
        /\ exit = "none"
        /\ \A i \in 1..Len(facts) : facts[i][1] = "Prime"
        /\ \A k \in 0..SieveN : Count(Prime(k), facts) = IF IsPrime(k) THEN 1 ELSE 0
        /\ Len(facts) = Cardinality({k \in 2..SieveN : IsPrime(k)})
        /\ SieveN = 100 => Len(facts) = 25

\* the sieve for n = 30 returned its ten primes
C18_Witness ==
    /\ pc = "done"
    /\ SieveN = 30
    /\ Len(facts) = 10
    /\ Count(Prime(29), facts) = 1

\* the filter of the running invocation holds the fact sequences of its own
\* phase checks since the filter was created, and nothing else
OwnFilter(f) ==
    f.filter = IF f.state.phase = "Solving" THEN Elems(f.traj)
               ELSE Elems(SubSeq(f.traj, f.entered + 1, Len(f.traj)))

\* C19: a nested invocation runs on its own fact sequence, presence set,
\* filter and phase state; when it returns, the invocation that called it has
\* the fact sequence, presence set, filter and phase it had before the call;
\* and every invocation returns what solve_minimum returns for its start when
\* the nested calls are computed separately.
C19_RecursionSafety ==
    /\ (pc = "check" /\ traj = <<>>) =>
           /\ cache = InitCache(facts)
           /\ filter = {}
           /\ state = Solving
    /\ (/\ pc = "check"
        /\ last.verb.kind = "SimplifyOne"
        /\ last.verb.from[1][1] = "Narrow") =>
           /\ last.facts = traj[Len(traj)]
           /\ last.cache = Elems(last.facts)
           /\ facts = ApplyInference(last.verb, last.cache, last.facts).facts
           /\ cache = ApplyInference(last.verb, last.cache, last.facts).cache
    /\ OwnFilter(Frame)
    /\ \A i \in 1..Len(stack) : OwnFilter(stack[i].frame)
    /\ pc = "done" => facts = solve_minimum_fn(traj[1]).facts
    /\ pc = "panic" => solve_minimum_fn(traj[1]).overflow

\* the invocation that ran two nested calls for Narrow(a), each of which ran
\* a nested call for Narrow(b), has returned with a = 1
C19_Witness ==
    /\ pc = "done"
    /\ stack = <<>>
    /\ Narrow("a") \in Elems(traj[1])
    /\ Narrow("b") \in Elems(traj[1])
    /\ UniqueAssignments \in Elems(traj[1])
    /\ Assignment("a", 1) \in Elems(facts)

\* C21: the driver starts in Solving with an empty filter; it stays in
\* Solving while the current sequence is new to the filter and moves to
\* SearchMinimum(current) at the first phase check whose sequence the filter
\* holds, the filter being emptied there (and the current sequence inserted
\* as in every iteration); the filter never loses a sequence otherwise, and
\* SearchMinimum is never left for Solving.
C21_PhaseMachine ==
    /\ [](traj = <<>> => (state = Solving /\ filter = {}))
    /\ [][/\ (pc = "check" /\ state.phase = "Solving" /\ facts \notin filter) =>
                 (state' = Solving /\ filter' = filter \cup {facts})
          /\ (pc = "check" /\ state.phase = "Solving" /\ facts \in filter) =>
                 (state' = SearchMinimum(facts) /\ filter' = {facts})
          /\ state.phase = "SearchMinimum" =>
                 (state'.phase = "SearchMinimum" /\ filter \subseteq filter')]_vars

\* the filter held three sequences when the current one was found in it: the
\* driver is in SearchMinimum with a filter holding the current sequence alone
C21_Witness ==
    /\ pc = "infer"
    /\ state = SearchMinimum(facts)
    /\ entered = 3
    /\ filter = {facts}
    /\ Cardinality(Elems(traj)) = 3

\* the sequence held at the last phase check
Current == traj[Len(traj)]

\* C22: when the driver is in SearchMinimum(best) and the filter contains
\* the current sequence, it exits without calling infer again and returns
\* best if |best| < |current| and the current sequence otherwise (equal
\* lengths included): the returned length is min(|best|, |current|).
C22_ClosureSelection ==
    /\ [][(pc = "check" /\ state.phase = "SearchMinimum" /\ facts \in filter) =>
              /\ pc' = "done"
              /\ inferCalls' = inferCalls
              /\ facts' = IF Len(state.fa) < Len(facts) THEN state.fa ELSE facts]_vars
    /\ []((pc = "done" /\ exit = "cycle") =>
              /\ facts = IF Len(state.fa) < Len(Current) THEN state.fa ELSE Current
              /\ Len(facts) = Min(Len(state.fa), Len(Current)))

\* a cycle closed on a sequence as long as the recorded one and different
\* from it: the current sequence was returned
C22_Witness ==
    /\ pc = "done"
    /\ exit = "cycle"
    /\ Len(state.fa) = Len(Current)
    /\ state.fa # Current
    /\ facts = Current

\* the phase checks made since SearchMinimum was entered
InPhase == (entered + 1)..Len(traj)

\* C23: throughout SearchMinimum(best), best is a copy of a sequence held at
\* a phase check since the phase was entered, it is no longer than any
\* sequence checked in the phase before the current check, and it changes
\* only to a strictly shorter current sequence.
C23_BestTracking ==
    /\ [](state.phase = "SearchMinimum" =>
              /\ \E k \in InPhase : state.fa = traj[k]
              /\ \A k \in InPhase : k < Len(traj) => Len(state.fa) <= Len(traj[k])
              /\ pc # "done" => Len(state.fa) <= Len(Current))
    /\ [][(state.phase = "SearchMinimum" /\ state'.fa # state.fa) =>
              /\ state'.fa = facts
              /\ Len(facts) < Len(state.fa)]_vars

\* the recorded minimum was replaced twice after the phase was entered
C23_Witness ==
    /\ state.phase = "SearchMinimum"
    /\ Len(traj) >= entered + 3
    /\ Len(traj[entered + 1]) = 2
    /\ Len(traj[entered + 2]) = 1
    /\ state.fa = <<>>

\* the index in traj of the first phase check made with the present filter
FilterStart == IF state.phase = "Solving" THEN 1 ELSE entered + 1

\* C24: in every iteration that does not exit at the closure check the
\* current sequence is inserted into the filter after the phase check and
\* before infer is called; each call of infer applies exactly one verb before
\* the next phase check; and the filter holds exactly the sequences that were
\* current at a phase check since that filter was created.
C24_FilterOrdering ==
    /\ [](pc = "infer" =>
              /\ facts = Current
              /\ facts \in filter
              /\ Len(traj) = inferCalls + 1)
    /\ [](pc = "check" => Len(traj) = inferCalls)
    /\ [](filter = {traj[k] : k \in FilterStart..Len(traj)})
    /\ [][(pc = "check" /\ pc' = "infer") =>
              /\ filter' = (IF state'.phase = state.phase THEN filter ELSE {}) \cup {facts}
              /\ inferCalls' = inferCalls]_vars
    /\ [][(pc = "infer" /\ pc' = "check") =>
              /\ inferCalls' = inferCalls + 1
              /\ last'.facts = facts /\ last'.cache = cache
              /\ facts' = ApplyInference(last'.verb, cache, facts).facts
              /\ cache' = ApplyInference(last'.verb, cache, facts).cache
              /\ filter' = filter]_vars

\* infer is about to be called for the fourth time, in the search phase, on a
\* sequence that neither closed the cycle nor lowered the recorded minimum
C24_Witness ==
    /\ pc = "infer"
    /\ state.phase = "SearchMinimum"
    /\ inferCalls = 3
    /\ state.fa # facts
    /\ Cardinality(filter) >= 2
    /\ facts \in filter

\* the lowest index at which s holds f
LowestIndex(f, s) == First({k \in DOMAIN s : s[k] = f})

\* SimplifyOne{from: f, to: t} has just been applied to a sequence holding f
ReplacedOne ==
    /\ Applied
    /\ last.verb.kind = "SimplifyOne"
    /\ last.verb.from[1] \in Elems(last.facts)

\* the sequence after overwriting the lowest occurrence of f by t
OverwriteLowest(f, t, s) == [s EXCEPT ![LowestIndex(f, s)] = t]

\* C25 (as stated): when f is present, SimplifyOne{from: f, to: t} overwrites
\* the occurrence of f with the lowest index by t in place, length and every
\* other position unchanged; f leaves the cache exactly when no other
\* occurrence of f remains; and t is in the cache afterwards.
C25_ReplaceOneInPlace ==
    ReplacedOne =>
        LET f == last.verb.from[1]
            t == last.verb.to[1]
        IN  /\ facts = OverwriteLowest(f, t, last.facts)
            /\ f \notin cache <=> Count(f, last.facts) = 1
            /\ t \in cache

\* C25 (amended): the same, with f leaving the cache exactly when no other
\* occurrence of f remains and t is a different fact; for t = f the sequence
\* and the cache are unchanged.
C25_ReplaceOneInPlaceDistinct ==
    ReplacedOne =>
        LET f == last.verb.from[1]
            t == last.verb.to[1]
        IN  /\ facts = OverwriteLowest(f, t, last.facts)
            /\ Len(facts) = Len(last.facts)
            /\ \A k \in DOMAIN facts : k # LowestIndex(f, last.facts) => facts[k] = last.facts[k]
            /\ f \notin cache <=> (Count(f, last.facts) = 1 /\ t # f)
            /\ f \in cache <=> Count(f, facts) >= 1
            /\ t \in cache
            /\ t = f => (facts = last.facts /\ cache = last.cache)

\* the second of three positions was the lowest occurrence and was
\* overwritten; a later occurrence remains, so the fact stays cached
C25_Witness ==
    /\ ReplacedOne
    /\ last.verb = SimplifyOne(2, 1)
    /\ last.facts = <<1, 2, 2>>
    /\ facts = <<1, 1, 2>>
    /\ cache = {1, 2}

\* one occurrence of f has just been removed by remove_from called with [f]
RemovedOne ==
    /\ Applied
    /\ \/ last.verb.kind = "OneTrue"
       \/ last.verb.kind = "ManyTrue" /\ Len(last.verb.from) = 1
    /\ last.verb.from[1] \in Elems(last.facts)

\* C26: removing one occurrence of f by remove_from deletes the occurrence
\* with the lowest index i, moves the former last element into position i
\* (when i was not the last position), shortens the sequence by one and
\* leaves every other element at its index.
C26_SwapRemove ==
    RemovedOne =>
        LET i == LowestIndex(last.verb.from[1], last.facts)
            n == Len(last.facts)
        IN  /\ Len(facts) = n - 1
            /\ \A k \in 1..(n - 1) :
                   facts[k] = IF k = i THEN last.facts[n] ELSE last.facts[k]

\* the first of three elements was removed and the last one took its place
C26_Witness ==
    /\ RemovedOne
    /\ last.verb = OneTrue(1)
    /\ last.facts = <<1, 1, 2>>
    /\ facts = <<2, 1>>

\* the orderings of the entries of F
Orderings(F) ==
    {G \in [DOMAIN F -> Elems(F)] : \A f \in Elems(F) : Count(f, G) = Count(f, F)}

\* a verb with a removal list has just been applied
RemovedMany ==
    /\ Applied
    /\ last.verb.kind \in {"ManyTrue", "Simplify", "SimplifyMany"}

\* C28: for every fact sequence and every permutation F' of F, ManyTrue{F}
\* and ManyTrue{F'} (likewise Simplify and SimplifyMany, which remove F
\* before appending) give the same count of every fact and the same cache.
C28_RemovalOrder ==
    RemovedMany =>
        \A G \in Orderings(last.verb.from) :
            LET r == ApplyInference([last.verb EXCEPT !.from = G], last.cache, last.facts)
            IN  /\ \A f \in Facts : Count(f, r.facts) = Count(f, facts)
                /\ r.cache = cache

\* two different facts were listed and one copy of each was removed from a
\* sequence holding a second copy of the first; the other order does the same
C28_Witness ==
    /\ RemovedMany
    /\ last.verb = ManyTrue(<<1, 2>>)
    /\ last.facts = <<1, 2, 1>>
    /\ facts = <<1>>
    /\ ApplyInference(ManyTrue(<<2, 1>>), last.cache, last.facts).facts = <<1>>
    /\ cache = {1}

\* the filter holds another ordering of the facts of s
ReorderedInFilter(s) ==
    \E G \in filter : G # s /\ \A f \in Facts : Count(f, G) = Count(f, s)

\* C27: a phase check takes the current sequence as seen exactly when the
\* filter holds that ordered sequence: the driver goes from Solving to
\* SearchMinimum or closes the cycle if and only if it does, so a sequence of
\* which the filter holds only other orderings does neither.
C27_OrderSensitive ==
    [][(pc = "check") =>
          /\ (state.phase = "Solving" /\ state'.phase = "SearchMinimum") <=>
                 (state.phase = "Solving" /\ facts \in filter)
          /\ pc' = "done" <=> (state.phase = "SearchMinimum" /\ facts \in filter)
          /\ (facts \notin filter /\ ReorderedInFilter(facts)) =>
                 (pc' = "infer" /\ state'.phase = state.phase)]_vars

\* [2, 1] was checked while the filter held [1, 2]: the driver is still
\* Solving and calls infer
C27_Witness ==
    /\ pc = "infer"
    /\ state = Solving
    /\ facts = <<2, 1>>
    /\ <<1, 2>> \in filter
    /\ Count(<<2, 1>>, traj) = 1

\* a OneTrue / ManyTrue verb none of whose facts occurs in fs
NoOpVerb(x, fs) ==
    /\ x.kind \in {"OneTrue", "ManyTrue"}
    /\ Elems(x.from) \cap Elems(fs) = {}

\* the phase check number j was the first on its sequence and was made in
\* Solving, infer has been called on it, and infer answers such a verb on it
NoOpAnswered(j) ==
    /\ \A k \in 1..(j - 1) : traj[k] # traj[j]
    /\ entered = -1 \/ j <= entered
    /\ inferCalls >= j
    /\ \A m \in memo : m[2] = traj[j] => NoOpVerb(m[3], traj[j])

\* the number of calls of infer made on the sequence F
CallsOn(F) == Cardinality({k \in 1..inferCalls : traj[k] = F})

\* infer is about to be called the second time on such a sequence, which the
\* verb left as it was and the phase check found in the filter
SecondCall ==
    /\ pc = "infer"
    /\ entered >= 1
    /\ Len(traj) = entered + 1
    /\ inferCalls = entered
    /\ NoOpAnswered(entered)
    /\ NoOpVerb(last.verb, facts)

\* C29: if a deterministic infer answers, on a sequence F first reached in
\* Solving at phase check j, a OneTrue / ManyTrue verb whose facts are all
\* absent, then the run makes at most two more phase checks: check j + 1 is
\* on F and enters SearchMinimum(F), check j + 2 is on F and closes the
\* cycle; the second call of infer on F gets the same verb, which again
\* changes nothing; the run does not end by infer answering None, infer is
\* called exactly twice on F, and the result is F.
C29_NoOpVerbEnds ==
    /\ [](\A j \in DOMAIN traj :
            NoOpAnswered(j) =>
                LET F == traj[j]
                IN  /\ facts = F
                    /\ Len(traj) <= j + 2
                    /\ Len(traj) >= j + 1 =>
                           (traj[j + 1] = F /\ entered = j /\ state = SearchMinimum(F))
                    /\ Len(traj) = j + 2 =>
                           (traj[j + 2] = F /\ pc = "done" /\ CallsOn(F) = 2)
                    /\ pc = "done" =>
                           (exit = "cycle" /\ Len(traj) = j + 2 /\ inferCalls = j + 1)
                    /\ CallsOn(F) <= 2)
    /\ [][SecondCall =>
              /\ pc' = "check"
              /\ last'.verb = last.verb
              /\ facts' = facts
              /\ cache' = cache]_vars

\* a run reached a new sequence at its second phase check, infer answered
\* OneTrue of an absent fact on it twice, and the run returned that sequence
C29_Witness ==
    /\ pc = "done"
    /\ exit = "cycle"
    /\ NoOpAnswered(2)
    /\ traj = <<<<1, 2>>, <<2>>, <<2>>, <<2>>>>
    /\ last.verb = OneTrue(1)
    /\ facts = <<2>>

\* C30: whenever infer returns None, in Solving or in SearchMinimum(best),
\* solve_minimum returns the current fact sequence as it was at that
\* iteration's phase check and infer call, whatever the recorded best is.
C30_NoneReturnsCurrent ==
    /\ [][(pc = "infer" /\ pc' = "done") =>
              (exit' = "none" /\ facts' = facts /\ state' = state)]_vars
    /\ []((pc = "done" /\ exit = "none") =>
              /\ facts = Current
              /\ inferCalls = Len(traj))

\* infer returned None in SearchMinimum while the recorded sequence was
\* shorter than the current one, and the current one was returned
C30_Witness ==
    /\ pc = "done"
    /\ exit = "none"
    /\ state.phase = "SearchMinimum"
    /\ Len(state.fa) < Len(facts)
    /\ facts = Current

====
